---- MODULE Spec2Model ----
(***************************************************************************)
(* Verification model of the ndastro computation engine.                   *)
(*                                                                         *)
(* Part 1: the dasha engine, ndastro/libs/dasha_systems.py                 *)
(*         (DashaSystem.find_running_dasha and the three period tables).   *)
(* Part 2: angle normalisation, ndastro/libs/utils.py (normalize_degree).  *)
(* Part 3: nakshatra and pada, ndastro/libs/utils.py                       *)
(*         (get_nakshatra_and_pada).                                       *)
(* Part 4: the position transformer and the ascendant, ndastro/libs/       *)
(*         utils.py (get_sidereal_planet_positions,                        *)
(*         get_sidereal_ascendant_position,                                *)
(*         get_tropical_ascendant_position).                               *)
(* Part 5: the retrograde detector, ndastro/libs/retrograde.py.            *)
(*                                                                         *)
(* Instants are integers counting ticks since proleptic ordinal day 0,     *)
(* TicksPerDay ticks to the day, so that `timedelta.days` (a floor) is     *)
(* distinguishable from the exact difference.  Degree values are integers  *)
(* counting 1/UnitsPerDegree of a degree.                                  *)
(***************************************************************************)
EXTENDS Integers, Sequences, FiniteSets, TLC

VARIABLES
    patched_system,   \* which get_*_details getter of the DashaSystem is patched
    patched_detail,   \* the DashaDetail the patched getter returns
    call,             \* the last find_running_dasha call: arguments and outcome
    degree,           \* argument of normalize_degree
    normalized,       \* value returned by normalize_degree
    renormalized,     \* value returned by normalize_degree applied to `normalized`
    degree_pc,        \* "idle" | "ready" | "done" | "twice"
    nak_call,         \* the last get_nakshatra_and_pada call
    chart_call,       \* the last call into the position transformer / ascendant
    retro_call,       \* the last call into the retrograde detector
    kattam_call,      \* the last get_kattams call
    rasi_call,        \* the last normalize_rasi_house call
    tropical_call,    \* the last get_tropical_planetary_positions call
    nak_pair,         \* two get_nakshatra_and_pada calls, L1 <= L2
    config_parser,    \* SettingsManager.config_parser: the raw value of one option
    configfile,       \* what the settings file holds
    mutex,            \* SettingsManager._mutex: 0 or the coroutine holding it
    blocked,          \* 0 or the coroutine whose QMutexLocker blocks the loop thread
    coroutines,       \* the coroutines of the SettingsManager on the event loop
    emitted,          \* the setting_changed signals emitted, in order
    db_instance,      \* DatabaseConnection._instance: 0 (None) or an object
    db_objects,       \* number of DatabaseConnection objects created
    db_initialized,   \* number of runs of DatabaseConnection._initialize
    db_threads        \* the threads calling DatabaseConnection()

dashaVars  == <<patched_system, patched_detail, call>>
degreeVars == <<degree, normalized, renormalized, degree_pc>>
settingsVars == <<config_parser, configfile, mutex, blocked, coroutines, emitted>>
dbVars     == <<db_instance, db_objects, db_initialized, db_threads>>
appVars    == <<settingsVars, dbVars>>
laterVars  == <<kattam_call, rasi_call, tropical_call, nak_pair, appVars>>
vars       == <<patched_system, patched_detail, call, degree, normalized, renormalized,
                degree_pc, nak_call, chart_call, retro_call, laterVars>>

---------------------------------------------------------------------------
(* Bounds of the model *)

TicksPerDay     == 2   \* resolution of an instant
YearsBefore     == 2   \* `now` starts this many 365-day years before birth
YearsAfter      == 1   \* ... and ends this many years after one full cycle
MaxCycles       == 2   \* cycles added to / removed from `now`
MaxPatchedCycle == 2   \* cycle_years of a patched DashaDetail: 0..MaxPatchedCycle
MaxPatchedYears == 2   \* period years in a patched table: 0..MaxPatchedYears
MaxPatchedLen   == 2   \* entries of a patched table
UnitsPerDegree  == 2   \* resolution of a degree value
ArcminuteParts  == 1   \* resolution of a nakshatra longitude, per arcminute
Slack           == 1   \* arcseconds examined next to each sign boundary
LonUnitsPerDegree == 10  \* resolution of an ephemeris longitude
WindowDays      == 30  \* length of a retrograde search window
MinRun          == 8   \* least number of days between two reversals
MaxTurns        == 2   \* degree arguments range over +/- MaxTurns full turns

---------------------------------------------------------------------------
(* Part 1: dasha engine *)

\* gui/models/dasha_detail.py: class Dashas(Enum)
Dashas == {"VIMSHOTTARI", "ASHTOTTARI", "KALACHAKRA"}

\* Values a caller can pass as dasha_system that are no member of Dashas
\* (None, a bare int, a member of another enum): they compare unequal to
\* every member.
NonDashas == {"None", "int(10)"}

DashaIds == Dashas \cup NonDashas

\* One item of the planets_period dict (dicts keep insertion order).
Period(p, y) == [planet |-> p, years |-> y]

\* Optional[dict]: None, or a dict given as the sequence of its items.
NoneDict     == [isNone |-> TRUE, items |-> <<>>]
SomeDict(s)  == [isNone |-> FALSE, items |-> s]

\* dataclass DashaDetail with its defaults
DashaDetail(n, sys, cy, pp) ==
    [name |-> n, dasha_system |-> sys, cycle_years |-> cy, planets_period |-> pp]

DashaDetailDefault == DashaDetail("", "VIMSHOTTARI", 0, NoneDict)

get_vimshottari_details ==
    DashaDetail("Vimshottari", "VIMSHOTTARI", 120,
        SomeDict(<< Period("KETHU", 7), Period("VENUS", 20), Period("SUN", 6),
                    Period("MOON", 10), Period("MARS", 7), Period("RAHU", 18),
                    Period("JUPITER", 16), Period("SATURN", 19),
                    Period("MERCURY", 17) >>))

\* mutant: the Mercury entry copied unchanged from the Vimshottari table
get_ashtottari_details_copied ==
    DashaDetail("Ashtottari", "ASHTOTTARI", 108,
        SomeDict(<< Period("KETHU", 7), Period("VENUS", 20), Period("SUN", 6),
                    Period("MOON", 10), Period("MARS", 7), Period("RAHU", 18),
                    Period("JUPITER", 16), Period("SATURN", 19),
                    Period("MERCURY", 17) >>))

get_ashtottari_details ==
    DashaDetail("Ashtottari", "ASHTOTTARI", 108,
        SomeDict(<< Period("KETHU", 7), Period("VENUS", 20), Period("SUN", 6),
                    Period("MOON", 10), Period("MARS", 7), Period("RAHU", 18),
                    Period("JUPITER", 16), Period("SATURN", 19),
                    Period("MERCURY", 5) >>))

get_kalachakra_details ==
    DashaDetail("Kalachakra", "KALACHAKRA", 28,
        SomeDict(<< Period("MOON", 1), Period("MARS", 2), Period("MERCURY", 3),
                    Period("VENUS", 4), Period("JUPITER", 5), Period("SUN", 6),
                    Period("SATURN", 7) >>))

NoPatch == "none"

\* self.get_<system>_details(): the patched return value when the getter is
\* patched on the instance, the table of the source otherwise.
GetDetails(sys) ==
    IF patched_system = sys THEN patched_detail
    ELSE IF sys = "VIMSHOTTARI" THEN get_vimshottari_details
    ELSE IF sys = "ASHTOTTARI" THEN get_ashtottari_details
    ELSE get_kalachakra_details

\* Outcome of a call: a returned planet or a raised exception, with the last
\* stage of the body that ran: "select" (the if/elif chain), "arith" (the
\* three assignments), "check" (the emptiness test), "walk" (the loop).
Return(p, stage) == [kind |-> "return", value |-> p, stage |-> stage]
Raise(e, stage)  == [kind |-> "raise", value |-> e, stage |-> stage]

\* mutant: an unknown system silently falls back to Vimshottari
SelectDetailsDefaulting(sys) ==
    IF sys \in Dashas THEN [ok |-> TRUE, details |-> GetDetails(sys)]
    ELSE [ok |-> TRUE, details |-> GetDetails("VIMSHOTTARI")]

SelectDetails(sys) ==
    IF sys = "VIMSHOTTARI" THEN [ok |-> TRUE, details |-> GetDetails("VIMSHOTTARI")]
    ELSE IF sys = "ASHTOTTARI" THEN [ok |-> TRUE, details |-> GetDetails("ASHTOTTARI")]
    ELSE IF sys = "KALACHAKRA" THEN [ok |-> TRUE, details |-> GetDetails("KALACHAKRA")]
    ELSE [ok |-> FALSE, details |-> DashaDetailDefault]

\* (current_datetime - birth_datetime).days: timedelta normalises to
\* 0 <= seconds < 86400, so .days is the floor of the difference in days.
TotalDays(birth, now) == (now - birth) \div TicksPerDay

CycleDays(details) == details.cycle_years * 365

\* mutant: the position is not reduced into the cycle
PositionInCycleUnreduced(total_days, cycle_days) == total_days

\* total_days % cycle_days, for cycle_days > 0 (Python: result in 0..cycle_days-1)
PositionInCycle(total_days, cycle_days) == total_days % cycle_days

\* `not dasha_details.planets_period`: None and the empty dict are falsy
IsFalsy(pp) == pp.isNone \/ Len(pp.items) = 0

\* mutant: the period's end day is taken as part of the period
PeriodCoversInclusive(elapsed_days, period_days, position_in_cycle) ==
    elapsed_days + period_days >= position_in_cycle

PeriodCovers(elapsed_days, period_days, position_in_cycle) ==
    elapsed_days + period_days > position_in_cycle

\* mutant: an exhausted walk answers with the last planet of the table
WalkExhaustedDefaulting(items) == Return(items[Len(items)].planet, "walk")

WalkExhausted(items) == Raise("UnableToDetermineDashaError", "walk")

RECURSIVE Walk(_, _, _, _)
Walk(items, i, elapsed_days, position_in_cycle) ==
    IF i > Len(items) THEN WalkExhausted(items)
    ELSE LET period_days == items[i].years * 365 IN
         IF PeriodCovers(elapsed_days, period_days, position_in_cycle)
         THEN Return(items[i].planet, "walk")
         ELSE Walk(items, i + 1, elapsed_days + period_days, position_in_cycle)

find_running_dasha(birth_datetime, current_datetime, dasha_system) ==
    LET sel == SelectDetails(dasha_system) IN
    IF ~sel.ok THEN Raise("UnsupportedDashaSystemError", "select")
    ELSE
      LET dasha_details == sel.details
          total_days    == TotalDays(birth_datetime, current_datetime)
          cycle_days    == CycleDays(dasha_details)
      IN IF cycle_days = 0 THEN Raise("ZeroDivisionError", "arith")
         ELSE LET position_in_cycle == PositionInCycle(total_days, cycle_days) IN
              IF IsFalsy(dasha_details.planets_period)
              THEN Raise("MissingPlanetsPeriodError", "check")
              ELSE Walk(dasha_details.planets_period.items, 1, 0, position_in_cycle)

---------------------------------------------------------------------------
(* Instants: datetime(year, month, day, tzinfo=utc) as ticks *)

IsLeap(y) == (y % 4 = 0) /\ ((y % 100 # 0) \/ (y % 400 = 0))

DaysBeforeYear(y) ==
    LET p == y - 1 IN p * 365 + (p \div 4) - (p \div 100) + (p \div 400)

DaysInMonth(y, m) ==
    IF m = 2 THEN (IF IsLeap(y) THEN 29 ELSE 28)
    ELSE IF m \in {4, 6, 9, 11} THEN 30 ELSE 31

RECURSIVE DaysBeforeMonth(_, _)
DaysBeforeMonth(y, m) ==
    IF m = 1 THEN 0 ELSE DaysBeforeMonth(y, m - 1) + DaysInMonth(y, m - 1)

Ordinal(y, m, d) == DaysBeforeYear(y) + DaysBeforeMonth(y, m) + d

datetime(y, m, d) == Ordinal(y, m, d) * TicksPerDay

---------------------------------------------------------------------------
(* Inputs *)

\* Birth instants: midnight of 1990-01-01 UTC and the ticks of that day.
Births == { datetime(1990, 1, 1) + f : f \in 0 .. (TicksPerDay - 1) }

\* Current instants for a table of cycle_years years: one tick before, at and
\* one tick after every 365-day year mark from YearsBefore years before birth
\* to YearsAfter years after the first full cycle, and the two scenario dates.
Nows(birth, cycle_years) ==
    { birth + (365 * y) * TicksPerDay + f :
        y \in (0 - YearsBefore) .. (cycle_years + YearsAfter), f \in -1 .. 1 }
    \cup { datetime(2020, 1, 1), datetime(1995, 1, 1) }

PatchPlanets == {"SUN", "MOON"}

RECURSIVE Tables(_)
\* all tables of exactly n entries with distinct planets
Tables(n) ==
    IF n = 0 THEN { <<>> }
    ELSE { Append(t, Period(p, y)) :
             t \in Tables(n - 1), p \in PatchPlanets, y \in 0 .. MaxPatchedYears }

HasDistinctPlanets(t) ==
    \A i, j \in 1 .. Len(t) : i # j => t[i].planet # t[j].planet

PatchedTables ==
    { NoneDict } \cup
    { SomeDict(t) : t \in { u \in UNION { Tables(n) : n \in 0 .. MaxPatchedLen } :
                              HasDistinctPlanets(u) } }

PatchedDetails ==
    { DashaDetail("mock", "VIMSHOTTARI", cy, pp) :
        cy \in 0 .. MaxPatchedCycle, pp \in PatchedTables }

NoCall ==
    [made |-> FALSE, birth |-> 0, now |-> 0, system |-> "None", selected |-> FALSE,
     details |-> DashaDetailDefault, result |-> Raise("", "")]

---------------------------------------------------------------------------
(* Actions of the dasha engine *)

DashaInit ==
    /\ patched_system = NoPatch
    /\ patched_detail = DashaDetailDefault
    /\ call = NoCall

\* mocker.patch.object(dasha_system, "get_<system>_details", return_value=d),
\* done before the call under test.
Patch ==
    /\ patched_system = NoPatch
    /\ ~call.made
    /\ \E s \in Dashas, d \in PatchedDetails :
         /\ patched_system' = s
         /\ patched_detail' = d
    /\ UNCHANGED call

\* dasha_system.find_running_dasha(birth, now, system).  The method reads the
\* object and never writes it, so a behaviour records one call; on a patched
\* object the call under test is the one that goes through the patched getter.
Call ==
    /\ ~call.made
    /\ \E s \in DashaIds :
         /\ patched_system = NoPatch \/ s = patched_system
         /\ LET sel == SelectDetails(s) IN
            \E b \in Births :
              \E n \in Nows(b, sel.details.cycle_years) :
                call' = [made |-> TRUE, birth |-> b, now |-> n, system |-> s,
                         selected |-> sel.ok, details |-> sel.details,
                         result |-> find_running_dasha(b, n, s)]
    /\ UNCHANGED <<patched_system, patched_detail>>

DashaNext == Patch \/ Call

---------------------------------------------------------------------------
(* Part 2: normalize_degree *)

DEGREE_MAX == 360

FullTurn == DEGREE_MAX * UnitsPerDegree

RECURSIVE ReduceDegree(_, _)
\* while degree > DEGREE_MAX: degree -= DEGREE_MAX   (turn: DEGREE_MAX in the
\* unit of d)
ReduceDegree(d, turn) == IF d > turn THEN ReduceDegree(d - turn, turn) ELSE d

\* normalize_degree on a value counted in units of which `turn` make 360 degrees
NormalizeDegreeIn(d, turn) == IF d < 0 THEN turn + d ELSE ReduceDegree(d, turn)

\* normalize_degree on a value counted in 1/UnitsPerDegree of a degree
normalize_degree(d) == NormalizeDegreeIn(d, FullTurn)

Degrees == (0 - MaxTurns * FullTurn - UnitsPerDegree) .. (MaxTurns * FullTurn + UnitsPerDegree)

DegreeInit ==
    /\ degree \in Degrees
    /\ normalized = 0
    /\ renormalized = 0
    /\ degree_pc = "ready"

DegreeIdle ==
    /\ degree = 0
    /\ normalized = 0
    /\ renormalized = 0
    /\ degree_pc = "idle"

Normalize ==
    /\ degree_pc = "ready"
    /\ normalized' = normalize_degree(degree)
    /\ degree_pc' = "done"
    /\ UNCHANGED <<degree, renormalized>>

\* normalize_degree(normalize_degree(degree)): the second application
NormalizeAgain ==
    /\ degree_pc = "done"
    /\ renormalized' = normalize_degree(normalized)
    /\ degree_pc' = "twice"
    /\ UNCHANGED <<degree, normalized>>

DegreeNext == Normalize \/ NormalizeAgain

---------------------------------------------------------------------------
(* Part 3: get_nakshatra_and_pada *)

\* An Angle is a rational number of degrees, n / d with d > 0.

TOTAL_NAKSHATRAS == 27

\* degrees_per_nakshatra.arcminutes(): (DEGREE_MAX / TOTAL_NAKSHATRAS) * 60,
\* which is 800 (the division is exact in arcminutes)
ArcminutesPerNakshatra == (DEGREE_MAX * 60) \div TOTAL_NAKSHATRAS

\* nakshatra_index = longitude.arcminutes() / degrees_per_nakshatra.arcminutes(),
\* kept as the fraction num / den
NakshatraIndex(n, d) == [num |-> n * 60, den |-> d * ArcminutesPerNakshatra]

\* math.floor and math.ceil of the fraction num / den, den > 0
Floor(num, den) == num \div den
Ceil(num, den)  == 0 - ((0 - num) \div den)

\* remainder = nakshatra_index - floor(nakshatra_index), compared with the
\* thresholds 0.25, 0.5, 0.75
PadaOf(x) ==
    LET rem == x.num - Floor(x.num, x.den) * x.den IN
    IF 4 * rem < x.den THEN 1
    ELSE IF 2 * rem < x.den THEN 2
    ELSE IF 4 * rem < 3 * x.den THEN 3
    ELSE 4

\* mutant: the nakshatra counted as floor(index) + 1
NakshatraNumberFloorPlusOne(x) == Floor(x.num, x.den) + 1

\* mutant: no special case for an index of 0
NakshatraNumberNoZeroCase(x) == Ceil(x.num, x.den)

\* ceil(nakshatra_index + 1 if nakshatra_index == 0 else nakshatra_index)
NakshatraNumber(x) ==
    IF x.num = 0 THEN Ceil(x.num + x.den, x.den) ELSE Ceil(x.num, x.den)

\* Natchaththirams(value): the member with that value, ValueError otherwise
Natchaththirams(v) ==
    IF v \in 1 .. TOTAL_NAKSHATRAS THEN [ok |-> TRUE, value |-> v]
    ELSE [ok |-> FALSE, value |-> v]

get_nakshatra_and_pada(n, d) ==
    LET nakshatra_index == NakshatraIndex(n, d)
        pada            == PadaOf(nakshatra_index)
        nakshatra       == Natchaththirams(NakshatraNumber(nakshatra_index))
    IN IF nakshatra.ok
       THEN [kind |-> "return", nakshatra |-> nakshatra.value, pada |-> pada]
       ELSE [kind |-> "raise", nakshatra |-> 0, pada |-> 0]

\* Longitudes of [0, 360] degrees: every 1/ArcminuteParts of an arcminute, and
\* the decimal values 13.3333 and 359.9999.
NakshatraLongitudes ==
    { [n |-> k, d |-> 60 * ArcminuteParts] :
        k \in 0 .. (DEGREE_MAX * 60 * ArcminuteParts) }
    \cup { [n |-> 133333, d |-> 10000], [n |-> 3599999, d |-> 10000] }

NoNakCall ==
    [made |-> FALSE, n |-> 0, d |-> 1,
     result |-> [kind |-> "", nakshatra |-> 0, pada |-> 0]]

NakIdle == nak_call = NoNakCall

\* get_nakshatra_and_pada(Angle(degrees=n/d))
NakshatraCall ==
    /\ ~nak_call.made
    /\ \E a \in NakshatraLongitudes :
         nak_call' = [made |-> TRUE, n |-> a.n, d |-> a.d,
                      result |-> get_nakshatra_and_pada(a.n, a.d)]

---------------------------------------------------------------------------
(* Part 4: position transformer and ascendant *)

\* Angles of a chart are integers counting arcseconds.  The remainder of a
\* division by a sign width carries micro-arcseconds as well, because the
\* ascendant's divisor is not a whole number of arcseconds.

ArcsecondsPerDegree == 3600
DEGREES_PER_RAASI   == 30
TOTAL_RAASI         == 12

\* AYANAMSA.LAHIRI = 24.12 degrees, in arcseconds
LAHIRI == 86832

Arcsec(deg) == deg * ArcsecondsPerDegree
TurnArcsec  == Arcsec(DEGREE_MAX)
SignArcsec  == Arcsec(DEGREES_PER_RAASI)

\* Planets (IntEnum values) and the `code` property
EMPTY     == 0 - 1
ASCENDANT == 0
SUN       == 1
MOON      == 2
MARS      == 3
MERCURY   == 4
JUPITER   == 5
VENUS     == 6
SATURN    == 7
RAHU      == 8
KETHU     == 9

PlanetCode(p) ==
    CASE p = EMPTY     -> "empty"
      [] p = ASCENDANT -> "ascendant"
      [] p = SUN       -> "sun"
      [] p = MOON      -> "moon"
      [] p = MARS      -> "mars barycenter"
      [] p = MERCURY   -> "mercury"
      [] p = JUPITER   -> "jupiter barycenter"
      [] p = VENUS     -> "venus"
      [] p = SATURN    -> "saturn barycenter"
      [] p = RAHU      -> "rahu"
      [] p = KETHU     -> "kethu"

\* Rasis(value), Houses(value): the member with that value, ValueError otherwise
Rasis(v) ==
    IF v \in 1 .. TOTAL_RAASI THEN [ok |-> TRUE, value |-> v]
    ELSE [ok |-> FALSE, value |-> v]

Houses(v) ==
    IF v \in 1 .. 12 THEN [ok |-> TRUE, value |-> v]
    ELSE [ok |-> FALSE, value |-> v]

HOUSE1 == (Houses(1)).value
ARIES  == (Rasis(1)).value

RECURSIVE ReduceRasiHouse(_)
ReduceRasiHouse(v) ==
    IF v > TOTAL_RAASI THEN ReduceRasiHouse(v - TOTAL_RAASI) ELSE v

normalize_rasi_house(v) ==
    IF v < 0 THEN TOTAL_RAASI + v ELSE ReduceRasiHouse(v)

\* The divisors of divmod: DEGREES_PER_RAASI for a body, and the literal
\* 29.99972222 degrees = 107998.999992 arcseconds for the ascendant, each
\* written as whole arcseconds less a deficit in micro-arcseconds.
BodySign == [whole |-> SignArcsec, deficit |-> 0]

AscendantSign == [whole |-> SignArcsec - 1, deficit |-> 8]

\* divmod(asc, sign) for asc a whole number of arcseconds in [0, 360 degrees]:
\* with q = asc div whole and r = asc mod whole,
\*   asc = q * (whole - deficit) + (r + q * deficit),
\* and r + q * deficit is below the divisor since (q + 1) * deficit is far less
\* than one arcsecond; so the quotient is q and the remainder r arcseconds
\* plus q * deficit micro-arcseconds.
DivMod(asc, sign) ==
    [quot |-> asc \div sign.whole,
     rem  |-> [arcsec |-> asc % sign.whole,
               micro  |-> (asc \div sign.whole) * sign.deficit]]

\* asc_adv_by == 0
IsZero(rem) == rem.arcsec = 0 /\ rem.micro = 0

None == 0 - 1
NoAngle == [arcsec |-> None, micro |-> 0]

\* PlanetDetail(name, short_name, latitude, longitude, rasi_occupied,
\* house_posited_at, planet) with the defaults of the dataclass; in_retrograde
\* is what is_planet_in_retrograde answers for the body at the given time.
PlanetDetail(planet, longitude, in_retrograde) ==
    [planet |-> planet, longitude |-> longitude,
     rasi_occupied |-> ARIES, house_posited_at |-> HOUSE1,
     nirayana_longitude |-> None, advanced_by |-> NoAngle,
     retrograde |-> FALSE, is_ascendant |-> FALSE,
     natchaththiram |-> None, paatham |-> None,
     in_retrograde |-> in_retrograde]

ChartReturn(ps) == [kind |-> "return", error |-> "", positions |-> ps]
ChartRaise(e)   == [kind |-> "raise", error |-> e, positions |-> <<>>]

\* get_tropical_ascendant_position: atan is degrees(atan2(...)) of lines
\* 259-261, in (-180, 180] degrees.  No branch of the function looks at the
\* latitude; it always returns an Angle.
get_tropical_ascendant_position(lat, atan) ==
    [kind |-> "return", degrees |-> NormalizeDegreeIn(atan, TurnArcsec)]

get_sidereal_ascendant_position(lat, atan, ayanamsa) ==
    LET ascr     == get_tropical_ascendant_position(lat, atan)
        asc      == NormalizeDegreeIn(ascr.degrees - ayanamsa, TurnArcsec)
        dm       == DivMod(asc, AscendantSign)
        rasi_num == dm.quot
        rasi_occupied ==
            Rasis(normalize_rasi_house(
                IF IsZero(dm.rem) THEN rasi_num ELSE rasi_num + 1))
        nak      == get_nakshatra_and_pada(asc, ArcsecondsPerDegree)
    IN IF ~rasi_occupied.ok \/ nak.kind = "raise"
       THEN ChartRaise("ValueError")
       ELSE ChartReturn(<<
              [PlanetDetail(EMPTY, ascr.degrees, FALSE) EXCEPT
                 !.nirayana_longitude = asc,
                 !.house_posited_at = HOUSE1,
                 !.advanced_by = dm.rem,
                 !.is_ascendant = TRUE,
                 !.natchaththiram = nak.nakshatra,
                 !.paatham = nak.pada,
                 !.rasi_occupied = rasi_occupied.value] >>)

\* the body of the loop of get_sidereal_planet_positions, lines 209-228
SiderealDetail(pos, asc_pos, ayanamsa) ==
    LET asc      == NormalizeDegreeIn(pos.longitude - ayanamsa, TurnArcsec)
        dm       == DivMod(asc, BodySign)
        rasi_num == dm.quot
        rasi_occupied ==
            Rasis(normalize_rasi_house(
                IF IsZero(dm.rem) THEN rasi_num ELSE rasi_num + 1))
        house    == Houses(IF rasi_num = 0 THEN rasi_num + 1 ELSE rasi_num)
        nak      == get_nakshatra_and_pada(asc, ArcsecondsPerDegree)
    IN IF ~rasi_occupied.ok \/ ~house.ok \/ nak.kind = "raise"
       THEN [ok |-> FALSE, pos |-> pos]
       ELSE [ok |-> TRUE,
             pos |-> [pos EXCEPT
                 !.nirayana_longitude = asc,
                 !.rasi_occupied = rasi_occupied.value,
                 !.house_posited_at =
                     normalize_rasi_house(asc_pos.house_posited_at + house.value),
                 !.advanced_by = dm.rem,
                 !.natchaththiram = nak.nakshatra,
                 !.paatham = nak.pada,
                 !.retrograde =
                     IF PlanetCode(pos.planet) \in {PlanetCode(RAHU), PlanetCode(KETHU)}
                     THEN TRUE ELSE pos.in_retrograde]]

\* positions is the list returned by get_tropical_planetary_positions
get_sidereal_planet_positions(positions, lat, atan, ayanamsa) ==
    LET asc_pos == get_sidereal_ascendant_position(lat, atan, ayanamsa) IN
    IF asc_pos.kind = "raise" THEN asc_pos
    ELSE LET done == [i \in 1 .. Len(positions) |->
                        SiderealDetail(positions[i], asc_pos.positions[1], ayanamsa)]
         IN IF \E i \in 1 .. Len(positions) : ~done[i].ok
            THEN ChartRaise("ValueError")
            ELSE ChartReturn([i \in 1 .. Len(positions) |-> done[i].pos]
                             \o asc_pos.positions)

\* Inputs of a chart

Ayanamsas == {0, LAHIRI}

Latitudes == {Arcsec(0 - 90), Arcsec(13), Arcsec(90)}

\* Sidereal longitudes of [0, 360): in every sign its start, the arcseconds
\* next to its two ends, and an interior point.
SignOffsets ==
    (0 .. Slack) \cup { SignArcsec - j : j \in 1 .. Slack } \cup { Arcsec(10) }

SiderealGrid ==
    { k * SignArcsec + e : k \in 0 .. (TOTAL_RAASI - 1), e \in SignOffsets }

\* the tropical longitude in [0, 360) whose sidereal longitude is g
Tropical(g, ayanamsa) == (g + ayanamsa) % TurnArcsec

\* the angle a in [0, 360) as a value of atan2, in (-180, 180] degrees
Signed(a) == IF 2 * a > TurnArcsec THEN a - TurnArcsec ELSE a

\* The values degrees(atan2(cos(lstr), -(sin(lstr)*cos(oer) + tan(lat)*sin(oer))))
\* takes.  tan(radians(90)) is the finite float 1.633e16, so at latitude +90
\* the second argument is hugely negative and the angle is 180 or -180
\* degrees, and at latitude -90 it is hugely positive and the angle is 0 (to
\* the arcsecond); at other latitudes the angle depends on time and place.
Atan2Degrees(lat, ayanamsa) ==
    IF lat = Arcsec(90) THEN { Arcsec(180), 0 - Arcsec(180) }
    ELSE IF lat = Arcsec(0 - 90) THEN { 0 }
    ELSE { Signed(Tropical(g, ayanamsa)) : g \in SiderealGrid }

\* The bodies of get_tropical_planetary_positions: a luminary, a planet
\* (direct or retrograde at the given time) and a lunar node.
BodyKinds ==
    { [planet |-> SUN,  in_retrograde |-> FALSE],
      [planet |-> MARS, in_retrograde |-> FALSE],
      [planet |-> MARS, in_retrograde |-> TRUE],
      [planet |-> RAHU, in_retrograde |-> FALSE] }

\* The lists get_tropical_planetary_positions may return, cut down to one
\* body (every body goes through the same loop body on its own).
TropicalPositions(ayanamsa) ==
    { << PlanetDetail(b.planet, Tropical(g, ayanamsa), b.in_retrograde) >> :
        b \in BodyKinds, g \in SiderealGrid }

NoChartCall ==
    [made |-> FALSE, op |-> "", lat |-> 0, ayanamsa |-> 0, atan |-> 0,
     ascr |-> [kind |-> "", degrees |-> 0],
     positions |-> <<>>, result |-> ChartReturn(<<>>)]

ChartIdle == chart_call = NoChartCall

\* get_sidereal_ascendant_position(given_time, lat, lon, ayanamsa)
AscendantCall ==
    /\ ~chart_call.made
    /\ \E lat \in Latitudes, ayanamsa \in Ayanamsas :
         \E atan \in Atan2Degrees(lat, ayanamsa) :
           chart_call' =
             [made |-> TRUE, op |-> "get_sidereal_ascendant_position",
              lat |-> lat, ayanamsa |-> ayanamsa, atan |-> atan,
              ascr |-> get_tropical_ascendant_position(lat, atan),
              positions |-> <<>>,
              result |-> get_sidereal_ascendant_position(lat, atan, ayanamsa)]

\* get_sidereal_planet_positions(lat, lon, given_time, ayanamsa)
PositionsCall ==
    /\ ~chart_call.made
    /\ \E lat \in Latitudes, ayanamsa \in Ayanamsas :
         \E atan \in Atan2Degrees(lat, ayanamsa),
            positions \in TropicalPositions(ayanamsa) :
           chart_call' =
             [made |-> TRUE, op |-> "get_sidereal_planet_positions",
              lat |-> lat, ayanamsa |-> ayanamsa, atan |-> atan,
              ascr |-> get_tropical_ascendant_position(lat, atan),
              positions |-> positions,
              result |-> get_sidereal_planet_positions(positions, lat, atan, ayanamsa)]

---------------------------------------------------------------------------
(* Part 5: retrograde detector *)

\* Instants are whole days.  An ephemeris gives the apparent ecliptic
\* longitude of one body, in 1/LonUnitsPerDegree of a degree and within
\* [0, 360): lon0 on day `base`, after which the body moves one unit a day in
\* the direction dir0 (1 direct, -1 retrograde) and reverses on every day of
\* `turns` (ascending, all after base).

LonCircle == DEGREE_MAX * LonUnitsPerDegree

\* movement from day `from` to day d, turns[i] being the next reversal
RECURSIVE DispFrom(_, _, _, _, _)
DispFrom(turns, i, from, dir, d) ==
    IF i > Len(turns) \/ d < turns[i]
    THEN dir * (d - from)
    ELSE dir * (turns[i] - 1 - from)
         + DispFrom(turns, i + 1, turns[i] - 1, 0 - dir, d)

\* astrometric.ecliptic_latlon()[1].degrees on day d >= base
LonAt(e, d) == (e.lon0 + DispFrom(e.turns, 1, e.base, e.dir0, d)) % LonCircle

step_days == 7

\* RetrogradeFunction.__call__(t): lon_now.degrees < lon_prev.degrees, with
\* lon_prev taken at t - 1
RetrogradeFunction(e, t) == LonAt(e, t) < LonAt(e, t - 1)

\* days in ascending order
RECURSIVE SortedDays(_)
SortedDays(S) ==
    IF S = {} THEN <<>>
    ELSE LET m == CHOOSE x \in S : \A y \in S : x <= y
         IN <<m>> \o SortedDays(S \ {m})

\* the instants `times`, each with the value f takes from there on
ChangesAt(e, times) ==
    [i \in 1 .. Len(times) |->
        [t |-> times[i], retro |-> RetrogradeFunction(e, times[i])]]

\* skyfield's find_discrete(t0, t1, f) for f with step_days: f is sampled at
\* int((t1 - t0) / step_days) + 2 instants spread evenly over [t0, t1]; every
\* pair of neighbouring samples with different values is narrowed down to the
\* instants where f changes; returned are those instants, each with the value
\* f takes from there on, in ascending order.  Nothing is returned for the
\* value f has at t0.
find_discrete(t0, t1, e) ==
    LET n         == ((t1 - t0) \div step_days) + 2
        Sample(i) == t0 + ((i * (t1 - t0)) \div (n - 1))
        Brackets  == { i \in 0 .. (n - 2) :
                         RetrogradeFunction(e, Sample(i))
                             # RetrogradeFunction(e, Sample(i + 1)) }
        Changes   == UNION { { d \in (Sample(i) + 1) .. Sample(i + 1) :
                                 RetrogradeFunction(e, d - 1)
                                     # RetrogradeFunction(e, d) } :
                             i \in Brackets }
    IN ChangesAt(e, SortedDays(Changes))

\* the loop of find_retrograde_periods, lines 139-146, from the i-th change
RECURSIVE PeriodsLoop(_, _, _, _, _)
PeriodsLoop(changes, i, in_retrograde, retro_start, retrograde_periods) ==
    IF i > Len(changes)
    THEN [in_retrograde |-> in_retrograde, retro_start |-> retro_start,
          retrograde_periods |-> retrograde_periods]
    ELSE IF changes[i].retro
    THEN IF ~in_retrograde
         THEN PeriodsLoop(changes, i + 1, TRUE, changes[i].t, retrograde_periods)
         ELSE PeriodsLoop(changes, i + 1, in_retrograde, retro_start,
                          retrograde_periods)
    ELSE IF in_retrograde
    THEN PeriodsLoop(changes, i + 1, FALSE, retro_start,
                     Append(retrograde_periods, <<retro_start, changes[i].t>>))
    ELSE PeriodsLoop(changes, i + 1, in_retrograde, retro_start,
                     retrograde_periods)

find_retrograde_periods(start_date, end_date, e) ==
    LET changes == find_discrete(start_date, end_date, e)
        after   == PeriodsLoop(changes, 1, FALSE, None, <<>>)
    IN IF after.in_retrograde
       THEN Append(after.retrograde_periods, <<after.retro_start, end_date>>)
       ELSE after.retrograde_periods

\* any(period_start <= check_date <= period_end for ... in retrograde_periods)
InPeriods(check_date, retrograde_periods) ==
    \E i \in 1 .. Len(retrograde_periods) :
        /\ retrograde_periods[i][1] <= check_date
        /\ check_date <= retrograde_periods[i][2]

\* timedelta(days=365)
SearchDays == 365

\* mutant: the Moon is searched like a planet
NeverRetrogradeWithoutMoon ==
    { PlanetCode(SUN), PlanetCode(ASCENDANT), PlanetCode(EMPTY) }

\* the codes of line 172
NeverRetrograde ==
    { PlanetCode(SUN), PlanetCode(MOON), PlanetCode(ASCENDANT), PlanetCode(EMPTY) }

\* searched tells whether find_retrograde_periods (and with it the
\* ephemeris) was called
is_planet_in_retrograde(check_date, planet_name, e) ==
    IF planet_name \notin NeverRetrograde
    THEN LET start_date == check_date - SearchDays
             end_date   == check_date + SearchDays
             retrograde_periods == find_retrograde_periods(start_date, end_date, e)
         IN [value |-> InPeriods(check_date, retrograde_periods),
             searched |-> TRUE, retrograde_periods |-> retrograde_periods]
    ELSE [value |-> FALSE, searched |-> FALSE, retrograde_periods |-> <<>>]

\* Inputs of the retrograde detector

\* reversal days out of `days`: none, one, or two at least MinRun days apart
TurnLists(days) ==
    { <<>> } \cup { <<a>> : a \in days }
    \cup { p \in { <<a, b>> : a \in days, b \in days } : p[2] - p[1] >= MinRun }

\* longitudes on the base day: mid-circle (no passage through 360 degrees
\* within a search window) and just below 360 degrees
Lon0s == { LonCircle \div 2, LonCircle - 2 }

Ephemerides(base, days) ==
    { [base |-> base, lon0 |-> l, dir0 |-> dr, turns |-> ts] :
        l \in Lon0s, dr \in {1, 0 - 1}, ts \in TurnLists(days) }

\* the offsets from check_date at which a body may reverse
TurnOffsets == { 0 - 300, 0 - 20, 0 - 2, 0, 1, 3, 20, 300 }

\* No retrograde run lasts a year: the body is not retrograde all the way
\* from the start of the window to check_date, nor from check_date to the end.
RetrogradeRunsShort(e, start_date, check_date, end_date) ==
    /\ ~(\A d \in start_date .. check_date : RetrogradeFunction(e, d))
    /\ ~(\A d \in check_date .. end_date : RetrogradeFunction(e, d))

PlanetNames ==
    { PlanetCode(p) : p \in {EMPTY, ASCENDANT, SUN, MOON, MARS, MERCURY} }

NoRetroCall ==
    [made |-> FALSE, op |-> "", planet_name |-> "", start_date |-> 0,
     end_date |-> 0, check_date |-> 0,
     eph |-> [base |-> 0, lon0 |-> 0, dir0 |-> 1, turns |-> <<>>],
     result |-> [value |-> FALSE, searched |-> FALSE, retrograde_periods |-> <<>>]]

RetroIdle == retro_call = NoRetroCall

\* find_retrograde_periods(start_date, end_date, planet_name, lat, lon) over
\* the window [0, WindowDays], followed by the membership test of line 183 for
\* a day of the window
FindPeriodsCall ==
    /\ ~retro_call.made
    /\ \E e \in Ephemerides(0 - 1, 1 .. WindowDays), x \in 0 .. WindowDays :
         LET retrograde_periods == find_retrograde_periods(0, WindowDays, e) IN
         retro_call' =
           [made |-> TRUE, op |-> "find_retrograde_periods",
            planet_name |-> PlanetCode(MERCURY),
            start_date |-> 0, end_date |-> WindowDays, check_date |-> x,
            eph |-> e,
            result |-> [value |-> InPeriods(x, retrograde_periods),
                        searched |-> TRUE,
                        retrograde_periods |-> retrograde_periods]]

\* is_planet_in_retrograde(check_date, planet_name, latitude, longitude),
\* check_date being day 0
IsRetrogradeCall ==
    /\ ~retro_call.made
    /\ \E name \in PlanetNames,
          e \in Ephemerides(0 - SearchDays - 1, TurnOffsets) :
         /\ RetrogradeRunsShort(e, 0 - SearchDays, 0, SearchDays)
         /\ retro_call' =
              [made |-> TRUE, op |-> "is_planet_in_retrograde",
               planet_name |-> name,
               start_date |-> 0 - SearchDays, end_date |-> SearchDays,
               check_date |-> 0, eph |-> e,
               result |-> is_planet_in_retrograde(0, name, e)]

\* RetrogradeFunction(planet_name, latitude, longitude)(t) for a day t of the
\* window [0, WindowDays]
RetrogradeFunctionCall ==
    /\ ~retro_call.made
    /\ \E e \in Ephemerides(0 - 1, 1 .. WindowDays), t \in 0 .. WindowDays :
         retro_call' =
           [made |-> TRUE, op |-> "RetrogradeFunction",
            planet_name |-> PlanetCode(MERCURY),
            start_date |-> 0, end_date |-> WindowDays, check_date |-> t,
            eph |-> e,
            result |-> [value |-> RetrogradeFunction(e, t),
                        searched |-> TRUE, retrograde_periods |-> <<>>]]

---------------------------------------------------------------------------
(* Part 6: the chart assembler, ndastro/libs/utils.py (get_kattams) *)

\* Rasis.owner, the ruling planet of a rasi
RasiOwner(rasi) ==
    CASE rasi \in {1, 8}   -> MARS
      [] rasi \in {2, 7}   -> VENUS
      [] rasi \in {3, 6}   -> MERCURY
      [] rasi = 4          -> MOON
      [] rasi = 5          -> SUN
      [] rasi \in {9, 12}  -> JUPITER
      [] rasi \in {10, 11} -> SATURN

\* A value that may be None
Some(v)  == [none |-> FALSE, list |-> v]
NoneList == [none |-> TRUE, list |-> <<>>]

\* rasis_planets.get(rasi), rasis_planets being the groups of
\* groupby(sorted(planets, key=rasi_occupied), rasi_occupied): sorted is
\* stable, so a group lists the positions of its rasi in the order of
\* `planets`; a rasi without positions has no group and get gives None.
RasisPlanetsGet(planets, rasi) ==
    LET group == SelectSeq(planets, LAMBDA pos : pos.rasi_occupied = rasi)
    IN IF group = <<>> THEN NoneList ELSE Some(group)

\* list(range(1, TOTAL_RAASI + 1))
rasi_list == [i \in 1 .. TOTAL_RAASI |-> i]

\* rasi_list[asc_rasi - 1 :] + rasi_list[: asc_rasi - 1]
normalized_rasi_list(asc_rasi) ==
    SubSeq(rasi_list, asc_rasi, TOTAL_RAASI) \o SubSeq(rasi_list, 1, asc_rasi - 1)

\* the Kattam built for position idx (from 0) of the rotated list
Kattam(idx, rasi_num, ascendant, planets) ==
    LET rasi == (Rasis(rasi_num)).value IN
    [order |-> rasi_num,
     owner |-> RasiOwner(rasi),
     is_ascendant |-> (ascendant.rasi_occupied = rasi),
     planets |-> RasisPlanetsGet(planets, rasi),
     rasi |-> rasi,
     house |-> (Houses(idx + 1)).value,
     asc_longitude |-> IF ascendant.rasi_occupied = rasi
                       THEN ascendant.longitude ELSE None]

\* kattams.sort(key=lambda x: x.order), a stable sort
SortByOrder(kattams) ==
    LET Rank(j) ==
            Cardinality({ k \in 1 .. Len(kattams) :
                            \/ kattams[k].order < kattams[j].order
                            \/ (kattams[k].order = kattams[j].order /\ k < j) }) + 1
    IN [i \in 1 .. Len(kattams) |->
           kattams[CHOOSE j \in 1 .. Len(kattams) : Rank(j) = i]]

KattamsReturn(planets, ks) ==
    [kind |-> "return", error |-> "", planets |-> planets, kattams |-> ks]
KattamsRaise(e) ==
    [kind |-> "raise", error |-> e, planets |-> <<>>, kattams |-> <<>>]

\* get_kattams(lat, lon, given_time): positions is the list
\* get_tropical_planetary_positions returns, atan the angle of the ascendant
\* formula, and ayanamsa the value of get_lahiri_ayanamsa(given_time).
get_kattams(positions, lat, atan, ayanamsa) ==
    LET ascendant == get_sidereal_ascendant_position(lat, atan, ayanamsa)
        planets   == get_sidereal_planet_positions(positions, lat, atan, ayanamsa)
    IN IF ascendant.kind = "raise" THEN KattamsRaise(ascendant.error)
       ELSE IF planets.kind = "raise" THEN KattamsRaise(planets.error)
       ELSE LET asc  == ascendant.positions[1]
                list == normalized_rasi_list(asc.rasi_occupied)
            IN KattamsReturn(planets.positions,
                   SortByOrder([i \in 1 .. Len(list) |->
                       Kattam(i - 1, list[i], asc, planets.positions)]))

\* Inputs of the chart assembler

\* sidereal longitudes of the bodies: in every sign its start and two
\* interior points
KattamOffsets == { 0, Arcsec(5), Arcsec(20) }

KattamGrid ==
    { k * SignArcsec + e : k \in 0 .. (TOTAL_RAASI - 1), e \in KattamOffsets }

\* sidereal longitudes of the ascendant: the middle of every sign
KattamAscendants ==
    { k * SignArcsec + Arcsec(15) : k \in 0 .. (TOTAL_RAASI - 1) }

\* The lists get_tropical_planetary_positions may return, cut down to the
\* two luminaries.
KattamPositions(ayanamsa) ==
    { << PlanetDetail(SUN, Tropical(g1, ayanamsa), FALSE),
         PlanetDetail(MOON, Tropical(g2, ayanamsa), FALSE) >> :
        g1 \in KattamGrid, g2 \in KattamGrid }

NoKattamCall ==
    [made |-> FALSE, lat |-> 0, atan |-> 0, ayanamsa |-> 0,
     positions |-> <<>>, result |-> KattamsReturn(<<>>, <<>>)]

KattamIdle == kattam_call = NoKattamCall

\* get_kattams(lat, lon, given_time)
KattamsCall ==
    /\ ~kattam_call.made
    /\ \E ayanamsa \in Ayanamsas :
         \E a \in KattamAscendants, positions \in KattamPositions(ayanamsa) :
           LET lat  == Arcsec(13)
               atan == Signed(Tropical(a, ayanamsa))
           IN kattam_call' =
                [made |-> TRUE, lat |-> lat, atan |-> atan,
                 ayanamsa |-> ayanamsa, positions |-> positions,
                 result |-> get_kattams(positions, lat, atan, ayanamsa)]

---------------------------------------------------------------------------
(* Part 7: normalize_rasi_house called on its own *)

\* Largest magnitude of the positions tried
MaxPosition == 60

Positions == (0 - MaxPosition) .. MaxPosition

NoRasiCall == [made |-> FALSE, position |-> 0, result |-> 0]

RasiIdle == rasi_call = NoRasiCall

\* One call normalize_rasi_house(position)
RasiHouseCall ==
    /\ ~rasi_call.made
    /\ \E position \in Positions :
         rasi_call' = [made |-> TRUE, position |-> position,
                       result |-> normalize_rasi_house(position)]

---------------------------------------------------------------------------
(* Part 8: get_tropical_planetary_positions *)

\* Observer coordinates and ecliptic coordinates are whole degrees here.

\* The values of the planets dictionary, in its insertion order
planets_items ==
    << "sun", "moon", "mercury", "venus", "mars barycenter",
       "jupiter barycenter", "saturn barycenter", "rahu" >>

\* Planets.from_code: the member whose code is planet_code
from_code(planet_code) ==
    CHOOSE p \in { SUN, MOON, MARS, MERCURY, JUPITER, VENUS, SATURN, RAHU, KETHU } :
        PlanetCode(p) = planet_code

\* get_tropical_position_of: the observer is built from lat and lon; the
\* answer is the body's ecliptic latitude and longitude in the ephemeris e
\* (the distance is not modelled).
get_tropical_position_of(planet_code, lat, lon, e) ==
    [observer |-> [planet_code |-> planet_code, lat |-> lat, lon |-> lon],
     lat |-> e[planet_code].lat, lon |-> e[planet_code].lon]

\* calculate_lunar_nodes: Rahu at the ascending node of the Moon, Kethu at
\* normalize_degree(rahu_position + 180)
calculate_lunar_nodes(node) ==
    << PlanetDetail(RAHU, Arcsec(node), FALSE),
       PlanetDetail(KETHU, Arcsec(NormalizeDegreeIn(node + 180, DEGREE_MAX)), FALSE) >>

\* The loop over planets.items() from its i-th item on: lat and lon are the
\* loop's local variables, queries the observers built so far.
RECURSIVE TropicalLoop(_, _, _, _, _, _, _)
TropicalLoop(i, lat, lon, e, node, queries, positions) ==
    IF i > Len(planets_items) THEN [queries |-> queries, positions |-> positions]
    ELSE LET planet_code == planets_items[i]
         IN IF planet_code = "rahu"
            THEN TropicalLoop(i + 1, lat, lon, e, node, queries,
                              positions \o calculate_lunar_nodes(node))
            ELSE LET r == get_tropical_position_of(planet_code, lat, lon, e)
                 IN TropicalLoop(i + 1, r.lat, r.lon, e, node,
                                 Append(queries, r.observer),
                                 Append(positions,
                                        PlanetDetail(from_code(planet_code),
                                                     Arcsec(r.lon), FALSE)))

get_tropical_planetary_positions(lat, lon, e, node) ==
    TropicalLoop(1, lat, lon, e, node, <<>>, <<>>)

\* Observers tried: (13 N, 80 E) and (51 N, 0 E)
Observers == { [lat |-> 13, lon |-> 80], [lat |-> 51, lon |-> 0] }

\* Ecliptic coordinates a body may have in the ephemeris
EclipticPoints == { [lat |-> 0 - 1, lon |-> 40], [lat |-> 1, lon |-> 200] }

TropicalBodies == { planets_items[i] : i \in 1 .. Len(planets_items) } \ { "rahu" }

NoTropicalCall ==
    [made |-> FALSE, lat |-> 0, lon |-> 0, queries |-> <<>>, positions |-> <<>>]

TropicalIdle == tropical_call = NoTropicalCall

\* One call get_tropical_planetary_positions(lat, lon, given_time)
TropicalCall ==
    /\ ~tropical_call.made
    /\ \E o \in Observers, e \in [TropicalBodies -> EclipticPoints] :
         LET r == get_tropical_planetary_positions(o.lat, o.lon, e, 100)
         IN tropical_call' =
              [made |-> TRUE, lat |-> o.lat, lon |-> o.lon,
               queries |-> r.queries, positions |-> r.positions]

---------------------------------------------------------------------------
(* Part 9: get_nakshatra_and_pada at two longitudes *)

\* Width of a pada in arcminutes
PadaArcminutes == ArcminutesPerNakshatra \div 4

\* Longitudes of [0, 360) degrees in arcminutes: every pada boundary, one
\* arcminute after it and one arcminute before the next
PairOffsets == { 0, 1, PadaArcminutes - 1 }

PairLongitudes ==
    { k * PadaArcminutes + o :
        k \in 0 .. (4 * TOTAL_NAKSHATRAS - 1), o \in PairOffsets }

NoPair ==
    [made |-> FALSE, l1 |-> 0, l2 |-> 0,
     r1 |-> [kind |-> "", nakshatra |-> 0, pada |-> 0],
     r2 |-> [kind |-> "", nakshatra |-> 0, pada |-> 0]]

PairIdle == nak_pair = NoPair

\* get_nakshatra_and_pada called for two longitudes l1 <= l2 (arcminutes)
NakshatraPairCall ==
    /\ ~nak_pair.made
    /\ \E l1 \in PairLongitudes, l2 \in PairLongitudes :
         /\ l1 <= l2
         /\ nak_pair' = [made |-> TRUE, l1 |-> l1, l2 |-> l2,
                         r1 |-> get_nakshatra_and_pada(l1, 60),
                         r2 |-> get_nakshatra_and_pada(l2, 60)]

---------------------------------------------------------------------------
(* Part 10: the settings manager, ndastro/core/settings/manager.py *)

\* One option (section, key) of the configuration is followed.  A value is
\* the sequence of its characters; an Optional value is Missing or Stored(v).
\* The coroutines run on one event loop: each action is what a coroutine does
\* from one suspension to the next, and the write of save runs in a worker
\* thread of the pool.  The order in which the ready coroutines run is left
\* open.

Missing == [none |-> TRUE, value |-> <<>>]

Stored(v) == [none |-> FALSE, value |-> v]

\* value.replace("%%", "")
RECURSIVE StripEscapes(_)
StripEscapes(v) ==
    IF Len(v) = 0 THEN <<>>
    ELSE IF Len(v) >= 2 /\ v[1] = "%" /\ v[2] = "%"
    THEN StripEscapes(SubSeq(v, 3, Len(v)))
    ELSE <<v[1]>> \o StripEscapes(Tail(v))

\* BasicInterpolation.before_set accepts the value: no "%" is left once the
\* escapes "%%" are taken out (references %(name)s are not tried)
before_set_accepts(v) ==
    LET rest == StripEscapes(v) IN \A i \in DOMAIN rest : rest[i] # "%"

\* BasicInterpolation.before_get of a value before_set accepts: "%%" reads "%"
RECURSIVE before_get(_)
before_get(v) ==
    IF Len(v) = 0 THEN <<>>
    ELSE IF Len(v) >= 2 /\ v[1] = "%" /\ v[2] = "%"
    THEN <<"%">> \o before_get(SubSeq(v, 3, Len(v)))
    ELSE <<v[1]>> \o before_get(Tail(v))

\* self.config_parser[section].get(key): None, or the interpolated value
SectionGet(option) ==
    IF option.none THEN Missing ELSE Stored(before_get(option.value))

\* str(value) for the values tried: two plain ones, one with an escaped
\* percent sign (as in the default date_format) and one with a lone percent
SettingValues == { <<"a">>, <<"b">>, <<"%", "%", "d">>, <<"a", "%">> }

\* what the option may hold after _load
LoadedOptions ==
    { Missing } \cup { Stored(v) : v \in { w \in SettingValues : before_set_accepts(w) } }

\* Number of calls into the SettingsManager
MaxCalls == 2

CallIds == 1 .. MaxCalls

\* the task asyncio.ensure_future(self.save()) of the set_async call id
SaveTaskOf(id) == id + MaxCalls

CoroutineIds == 1 .. (2 * MaxCalls)

NoCoroutine ==
    [op |-> "", pc |-> "idle", value |-> Missing, stored_before |-> Missing,
     changed |-> FALSE]

NoFile == [truncated |-> FALSE, option |-> Missing]

SettingsIdle ==
    /\ config_parser = Missing /\ configfile = NoFile /\ mutex = 0 /\ blocked = 0
    /\ coroutines = <<>> /\ emitted = <<>>

\* after __init__: the option as _load read it from the file
SettingsInit ==
    /\ config_parser \in LoadedOptions
    /\ configfile = [truncated |-> FALSE, option |-> config_parser]
    /\ mutex = 0
    /\ blocked = 0
    /\ coroutines = [c \in CoroutineIds |-> NoCoroutine]
    /\ emitted = <<>>

\* QMutexLocker(self._mutex) finds the mutex locked: the thread of the event
\* loop waits in it, and no coroutine runs any more
BlocksInLocker(c, op, value) ==
    /\ blocked' = c
    /\ coroutines' = [coroutines EXCEPT ![c] =
                         [op |-> op, pc |-> "locking", value |-> value,
                          stored_before |-> config_parser, changed |-> FALSE]]
    /\ UNCHANGED <<config_parser, configfile, mutex, emitted>>

\* config_parser[section][key] = str(value) raises ValueError
RaisesValueError(c, op, value) ==
    /\ coroutines' = [coroutines EXCEPT ![c] =
                         [op |-> op, pc |-> "raised", value |-> value,
                          stored_before |-> config_parser, changed |-> FALSE]]
    /\ UNCHANGED <<config_parser, configfile, mutex, blocked, emitted>>

\* set_async, lines 191-198: up to the suspension in _async_save
SetAsyncStart(id, v) ==
    /\ blocked = 0
    /\ coroutines[id].pc = "idle"
    /\ IF mutex # 0 THEN BlocksInLocker(id, "set_async", Stored(v))
       ELSE IF ~before_set_accepts(v) THEN RaisesValueError(id, "set_async", Stored(v))
       ELSE LET old_value == SectionGet(config_parser)
                changed   == old_value # Stored(v)
            IN /\ config_parser' = Stored(v)
               /\ coroutines' =
                    [coroutines EXCEPT
                       ![id] = [op |-> "set_async", pc |-> "await_save",
                                value |-> Stored(v),
                                stored_before |-> config_parser,
                                changed |-> changed],
                       ![SaveTaskOf(id)] = [NoCoroutine EXCEPT !.op = "save",
                                                              !.pc = "ready"]]
               /\ UNCHANGED <<configfile, mutex, blocked, emitted>>

\* save, lines 233-235: the mutex is locked, the file opened for writing (and
\* so truncated), the write handed to the pool
SaveBegins(c) ==
    IF mutex # 0 THEN BlocksInLocker(c, "save", Missing)
    ELSE /\ mutex' = c
         /\ configfile' = [truncated |-> TRUE, option |-> Missing]
         /\ coroutines' = [coroutines EXCEPT ![c] =
                              [NoCoroutine EXCEPT !.op = "save", !.pc = "executor"]]
         /\ UNCHANGED <<config_parser, blocked, emitted>>

\* the task of _async_save starts to run
SaveTaskStart(c) ==
    /\ blocked = 0
    /\ c \notin CallIds
    /\ coroutines[c].pc = "ready"
    /\ SaveBegins(c)

\* save() called on its own
SaveCall(id) ==
    /\ blocked = 0
    /\ coroutines[id].pc = "idle"
    /\ SaveBegins(id)

\* config_parser.write(configfile) in a thread of the pool
ExecutorWrite(c) ==
    /\ coroutines[c].pc = "executor"
    /\ configfile' = [truncated |-> FALSE, option |-> config_parser]
    /\ coroutines' = [coroutines EXCEPT ![c].pc = "written"]
    /\ UNCHANGED <<config_parser, mutex, blocked, emitted>>

\* save resumes after the write: lines 236 and the exit of the with block
SaveFinish(c) ==
    /\ blocked = 0
    /\ coroutines[c].pc = "written"
    /\ mutex' = 0
    /\ coroutines' = [coroutines EXCEPT ![c].pc = "done"]
    /\ UNCHANGED <<config_parser, configfile, blocked, emitted>>

\* the signal setting_changed(section, key, str(value)); saved tells whether
\* the save of the call has written the file by that moment
Emit(id, value) ==
    Append(emitted,
           [by |-> id, value |-> value,
            saved |-> coroutines[SaveTaskOf(id)].pc = "done"])

\* set_async, lines 199-200: resumed once the save task is done
SetAsyncResume(id) ==
    /\ blocked = 0
    /\ coroutines[id].pc = "await_save"
    /\ coroutines[SaveTaskOf(id)].pc = "done"
    /\ emitted' = IF coroutines[id].changed
                  THEN Emit(id, coroutines[id].value) ELSE emitted
    /\ coroutines' = [coroutines EXCEPT ![id].pc = "done"]
    /\ UNCHANGED <<config_parser, configfile, mutex, blocked>>

\* set, lines 218-225: save() is awaited inside the with block, and its
\* QMutexLocker takes the mutex this coroutine holds
SetCall(id, v) ==
    /\ blocked = 0
    /\ coroutines[id].pc = "idle"
    /\ IF mutex # 0 THEN BlocksInLocker(id, "set", Stored(v))
       ELSE IF ~before_set_accepts(v) THEN RaisesValueError(id, "set", Stored(v))
       ELSE LET old_value == SectionGet(config_parser)
                changed   == old_value # Stored(v)
            IN /\ config_parser' = Stored(v)
               /\ mutex' = IF changed THEN id ELSE 0
               /\ blocked' = IF changed THEN id ELSE 0
               /\ coroutines' =
                    [coroutines EXCEPT
                       ![id] = [op |-> "set",
                                pc |-> IF changed THEN "locking" ELSE "done",
                                value |-> Stored(v),
                                stored_before |-> config_parser,
                                changed |-> changed]]
               /\ UNCHANGED <<configfile, emitted>>

\* save_all, lines 243-250: the same await of save() inside the with block
SaveAllCall(id, settings) ==
    /\ blocked = 0
    /\ coroutines[id].pc = "idle"
    /\ IF mutex # 0 THEN BlocksInLocker(id, "save_all", settings)
       ELSE /\ config_parser' = settings
            /\ mutex' = id
            /\ blocked' = id
            /\ coroutines' =
                 [coroutines EXCEPT
                    ![id] = [op |-> "save_all", pc |-> "locking",
                             value |-> settings,
                             stored_before |-> config_parser,
                             changed |-> FALSE]]
            /\ UNCHANGED <<configfile, emitted>>

---------------------------------------------------------------------------
(* Part 11: the database singleton, ndastro/core/database/connection.py *)

\* Number of threads calling DatabaseConnection() before an instance exists
NumThreads == 3

Threads == 1 .. NumThreads

DbInit ==
    /\ db_instance = 0
    /\ db_objects = 0
    /\ db_initialized = 0
    /\ db_threads = [t \in Threads |-> [pc |-> "new", result |-> 0]]

DbIdle ==
    /\ db_instance = 0 /\ db_objects = 0 /\ db_initialized = 0
    /\ db_threads = <<>>

\* line 50: if cls._instance is None
DbTest(t) ==
    /\ db_threads[t].pc = "new"
    /\ db_threads' = [db_threads EXCEPT ![t].pc =
                         IF db_instance = 0 THEN "create" ELSE "return"]
    /\ UNCHANGED <<db_instance, db_objects, db_initialized>>

\* line 51: cls._instance = super().__new__(cls)
DbCreate(t) ==
    /\ db_threads[t].pc = "create"
    /\ db_objects' = db_objects + 1
    /\ db_instance' = db_objects + 1
    /\ db_threads' = [db_threads EXCEPT ![t].pc = "initialize"]
    /\ UNCHANGED db_initialized

\* line 52: cls._initialize()
DbInitialize(t) ==
    /\ db_threads[t].pc = "initialize"
    /\ db_initialized' = db_initialized + 1
    /\ db_threads' = [db_threads EXCEPT ![t].pc = "return"]
    /\ UNCHANGED <<db_instance, db_objects>>

\* line 53: return cls._instance
DbReturn(t) ==
    /\ db_threads[t].pc = "return"
    /\ db_threads' = [db_threads EXCEPT ![t] = [pc |-> "done", result |-> db_instance]]
    /\ UNCHANGED <<db_instance, db_objects, db_initialized>>

---------------------------------------------------------------------------
(* Specifications *)

AppIdle == SettingsIdle /\ DbIdle

DashaIdle == DashaInit

LaterIdle == KattamIdle /\ RasiIdle /\ TropicalIdle /\ PairIdle /\ AppIdle

Init == DashaInit /\ DegreeIdle /\ NakIdle /\ ChartIdle /\ RetroIdle /\ LaterIdle

Next ==
    \/ (Patch /\ UNCHANGED <<degreeVars, nak_call, chart_call, retro_call, laterVars>>)
    \/ (Call /\ UNCHANGED <<degreeVars, nak_call, chart_call, retro_call, laterVars>>)

Spec == Init /\ [][Next]_vars

InitDegree == DegreeInit /\ DashaIdle /\ NakIdle /\ ChartIdle /\ RetroIdle /\ LaterIdle

NextDegree ==
    \/ (Normalize /\ UNCHANGED <<dashaVars, nak_call, chart_call, retro_call, laterVars>>)
    \/ (NormalizeAgain /\ UNCHANGED <<dashaVars, nak_call, chart_call, retro_call, laterVars>>)

SpecDegree == InitDegree /\ [][NextDegree]_vars

InitNakshatra == NakIdle /\ DashaIdle /\ DegreeIdle /\ ChartIdle /\ RetroIdle /\ LaterIdle

NextNakshatra == NakshatraCall /\ UNCHANGED <<dashaVars, degreeVars, chart_call, retro_call, laterVars>>

SpecNakshatra == InitNakshatra /\ [][NextNakshatra]_vars

InitChart == ChartIdle /\ DashaIdle /\ DegreeIdle /\ NakIdle /\ RetroIdle /\ LaterIdle

NextChart == \/ (AscendantCall /\ UNCHANGED <<dashaVars, degreeVars, nak_call, retro_call, laterVars>>)
             \/ (PositionsCall /\ UNCHANGED <<dashaVars, degreeVars, nak_call, retro_call, laterVars>>)

SpecChart == InitChart /\ [][NextChart]_vars

InitRetro == RetroIdle /\ DashaIdle /\ DegreeIdle /\ NakIdle /\ ChartIdle /\ LaterIdle

NextRetro == \/ (FindPeriodsCall /\ UNCHANGED <<dashaVars, degreeVars, nak_call, chart_call, laterVars>>)
             \/ (IsRetrogradeCall /\ UNCHANGED <<dashaVars, degreeVars, nak_call, chart_call, laterVars>>)

SpecRetro == InitRetro /\ [][NextRetro]_vars

NextRetroFunction ==
    RetrogradeFunctionCall /\ UNCHANGED <<dashaVars, degreeVars, nak_call, chart_call, laterVars>>

SpecRetroFunction == InitRetro /\ [][NextRetroFunction]_vars

InitPair == PairIdle /\ DashaIdle /\ DegreeIdle /\ NakIdle /\ ChartIdle /\ RetroIdle
            /\ KattamIdle /\ RasiIdle /\ TropicalIdle /\ AppIdle

NextPair ==
    NakshatraPairCall
    /\ UNCHANGED <<dashaVars, degreeVars, nak_call, chart_call, retro_call,
                   kattam_call, rasi_call, tropical_call, appVars>>

SpecPair == InitPair /\ [][NextPair]_vars

EngineIdle == DashaIdle /\ DegreeIdle /\ NakIdle /\ ChartIdle /\ RetroIdle /\ AppIdle

engineVars == <<dashaVars, degreeVars, nak_call, chart_call, retro_call, appVars>>

InitKattams == KattamIdle /\ EngineIdle /\ RasiIdle /\ TropicalIdle /\ PairIdle

NextKattams == KattamsCall /\ UNCHANGED <<engineVars, rasi_call, tropical_call, nak_pair>>

SpecKattams == InitKattams /\ [][NextKattams]_vars

InitRasiHouse == RasiIdle /\ EngineIdle /\ KattamIdle /\ TropicalIdle /\ PairIdle

NextRasiHouse ==
    RasiHouseCall /\ UNCHANGED <<engineVars, kattam_call, tropical_call, nak_pair>>

SpecRasiHouse == InitRasiHouse /\ [][NextRasiHouse]_vars

InitTropical == TropicalIdle /\ EngineIdle /\ KattamIdle /\ RasiIdle /\ PairIdle

NextTropical ==
    TropicalCall /\ UNCHANGED <<engineVars, kattam_call, rasi_call, nak_pair>>

SpecTropical == InitTropical /\ [][NextTropical]_vars

LibraryIdle ==
    /\ DashaIdle /\ DegreeIdle /\ NakIdle /\ ChartIdle /\ RetroIdle
    /\ KattamIdle /\ RasiIdle /\ TropicalIdle /\ PairIdle

libraryVars ==
    <<dashaVars, degreeVars, nak_call, chart_call, retro_call,
      kattam_call, rasi_call, tropical_call, nak_pair>>

InitDatabase == DbInit /\ SettingsIdle /\ LibraryIdle

NextDatabase ==
    \E t \in Threads :
        \/ (DbTest(t) /\ UNCHANGED <<libraryVars, settingsVars>>)
        \/ (DbCreate(t) /\ UNCHANGED <<libraryVars, settingsVars>>)
        \/ (DbInitialize(t) /\ UNCHANGED <<libraryVars, settingsVars>>)
        \/ (DbReturn(t) /\ UNCHANGED <<libraryVars, settingsVars>>)

SpecDatabase == InitDatabase /\ [][NextDatabase]_vars

InitSettings == SettingsInit /\ DbIdle /\ LibraryIdle

NextSettings ==
    \/ (\E id \in CallIds, v \in SettingValues : SetAsyncStart(id, v)) /\ UNCHANGED <<libraryVars, dbVars>>
    \/ (\E id \in CallIds : SetAsyncResume(id)) /\ UNCHANGED <<libraryVars, dbVars>>
    \/ (\E id \in CallIds, v \in SettingValues : SetCall(id, v)) /\ UNCHANGED <<libraryVars, dbVars>>
    \/ (\E id \in CallIds : SaveCall(id)) /\ UNCHANGED <<libraryVars, dbVars>>
    \/ (\E id \in CallIds, settings \in LoadedOptions : SaveAllCall(id, settings)) /\ UNCHANGED <<libraryVars, dbVars>>
    \/ (\E c \in CoroutineIds : SaveTaskStart(c)) /\ UNCHANGED <<libraryVars, dbVars>>
    \/ (\E c \in CoroutineIds : ExecutorWrite(c)) /\ UNCHANGED <<libraryVars, dbVars>>
    \/ (\E c \in CoroutineIds : SaveFinish(c)) /\ UNCHANGED <<libraryVars, dbVars>>

SpecSettings == InitSettings /\ [][NextSettings]_vars

\* The event loop runs every coroutine that is ready and the pool runs every
\* write handed to it; a call that can be made is made.
SpecSettingsLive == SpecSettings /\ WF_vars(NextSettings)

---------------------------------------------------------------------------
(* Properties of the dasha engine, checked under Spec *)

RECURSIVE SumYears(_)
SumYears(items) ==
    IF Len(items) = 0 THEN 0 ELSE items[1].years + SumYears(Tail(items))

\* first day and first day after the i-th period, counted from the cycle start
StartDay(items, i) == 365 * SumYears(SubSeq(items, 1, i - 1))
EndDay(items, i)   == 365 * SumYears(SubSeq(items, 1, i))

Unpatched == patched_system = NoPatch

CallItems == call.details.planets_period.items

\* position of the recorded call in its cycle, for a cycle of positive length
CallPosition ==
    IF call.details.cycle_years > 0
    THEN TotalDays(call.birth, call.now) % (call.details.cycle_years * 365)
    ELSE 0

\* a table whose period years sum to a cycle of positive length
WellFormed(d) ==
    /\ ~IsFalsy(d.planets_period)
    /\ d.cycle_years > 0
    /\ SumYears(d.planets_period.items) = d.cycle_years

\* C1: for every registered system, birth instant, current instant and every
\* integer k, the call with `now` moved by k whole cycles (k * cycle_years * 365
\* days) returns the same planet as the call with `now`.
C1_PeriodicInNow ==
    (call.made /\ Unpatched /\ call.system \in Dashas) =>
        /\ call.result.kind = "return"
        /\ \A k \in (0 - MaxCycles) .. MaxCycles :
               find_running_dasha(call.birth,
                   call.now + k * CycleDays(call.details) * TicksPerDay,
                   call.system) = call.result

\* a call on a registered system made more than one whole cycle after birth
C1_Witness ==
    /\ call.made /\ Unpatched /\ call.system \in Dashas
    /\ call.result.kind = "return"
    /\ TotalDays(call.birth, call.now) >= CycleDays(call.details)

DeclaredCycleYears(sys) ==
    IF sys = "VIMSHOTTARI" THEN 120 ELSE IF sys = "ASHTOTTARI" THEN 108 ELSE 28

\* C3: the period years of every registered system's table sum exactly to its
\* declared cycle_years: 120 (Vimshottari), 108 (Ashtottari), 28 (Kalachakra).
C3_TablesSumToCycle ==
    Unpatched =>
        \A s \in Dashas :
            /\ GetDetails(s).cycle_years = DeclaredCycleYears(s)
            /\ ~GetDetails(s).planets_period.isNone
            /\ SumYears(GetDetails(s).planets_period.items) = GetDetails(s).cycle_years

\* the Ashtottari table has been selected by a call and walked
C3_Witness ==
    /\ call.made /\ Unpatched /\ call.system = "ASHTOTTARI"
    /\ call.details = get_ashtottari_details
    /\ call.result.kind = "return"

\* C4: when the current instant is earlier than the birth instant (totalDays
\* negative) the call fails with a domain error and returns no planet (stated
\* for the registered tables).
C4_NegativeElapsedIsDomainError ==
    (call.made /\ Unpatched /\ call.selected /\ TotalDays(call.birth, call.now) < 0) =>
        /\ call.result.kind = "raise"
        /\ call.result.value = "DomainError"

\* C5: birth 1990-01-01 UTC, now 2020-01-01 UTC, Vimshottari: Mercury.
C5_VimshottariScenarioIsMercury ==
    ( /\ call.made /\ Unpatched /\ call.system = "VIMSHOTTARI"
      /\ call.birth = datetime(1990, 1, 1)
      /\ call.now = datetime(2020, 1, 1) ) =>
        /\ call.result.kind = "return"
        /\ call.result.value = "MERCURY"

\* C6: birth 1990-01-01 UTC, now 1995-01-01 UTC, Kalachakra: Mars.
C6_KalachakraScenarioIsMars ==
    ( /\ call.made /\ Unpatched /\ call.system = "KALACHAKRA"
      /\ call.birth = datetime(1990, 1, 1)
      /\ call.now = datetime(1995, 1, 1) ) =>
        /\ call.result.kind = "return"
        /\ call.result.value = "MARS"

\* C7: for a system id that is not registered the call raises
\* UnsupportedDashaSystemError, whatever the instants, in the selection stage
\* (before any period arithmetic) and returns no planet.
C7_UnregisteredRaisesUnsupported ==
    (call.made /\ call.system \notin Dashas) =>
        call.result = Raise("UnsupportedDashaSystemError", "select")

\* a call with an unregistered id and a current instant after birth
C7_Witness ==
    /\ call.made /\ call.system \notin Dashas
    /\ call.now > call.birth
    /\ call.result.kind = "raise"

\* C8: when the selected detail record has an empty or missing planets_period
\* the call raises MissingPlanetsPeriodError and no other error, whatever the
\* record's cycle_years (0 by default) and whatever the instants.
C8_MissingTableRaisesMissingPeriod ==
    (call.made /\ call.selected /\ IsFalsy(call.details.planets_period)) =>
        call.result = Raise("MissingPlanetsPeriodError", "check")

\* C9: when the walked table's period years sum to less than the cycle length
\* and the position in the cycle is at or beyond the table's total days, the
\* call raises UnableToDetermineDashaError and returns no planet.
C9_ExhaustedWalkRaises ==
    ( /\ call.made /\ call.selected
      /\ ~IsFalsy(call.details.planets_period)
      /\ SumYears(CallItems) < call.details.cycle_years
      /\ CallPosition >= 365 * SumYears(CallItems) ) =>
        call.result = Raise("UnableToDetermineDashaError", "walk")

\* an under-summing table with a period of positive length, walked to its end
C9_Witness ==
    /\ call.made /\ call.selected
    /\ ~IsFalsy(call.details.planets_period)
    /\ SumYears(CallItems) > 0
    /\ SumYears(CallItems) < call.details.cycle_years
    /\ CallPosition >= 365 * SumYears(CallItems)
    /\ call.result.kind = "raise"

---------------------------------------------------------------------------
(* Properties of normalize_degree, checked under SpecDegree *)

\* C10: for every degree value L, negative, zero or positive, of any
\* magnitude, normalize_degree(L) lies in [0, 360).
C10_NormalizedInRange ==
    degree_pc = "done" => (0 <= normalized /\ normalized < FullTurn)

\* C11: normalize_degree is idempotent: for every degree value L,
\* normalize_degree(normalize_degree(L)) = normalize_degree(L).
C11_NormalizeIdempotent ==
    degree_pc = "twice" => renormalized = normalized

---------------------------------------------------------------------------
(* Properties of get_nakshatra_and_pada, checked under SpecNakshatra *)

\* the called longitude is the decimal number v / 10000 degrees
NakInputIs(v) ==
    IF nak_call.d = 10000 THEN nak_call.n = v
    ELSE nak_call.n * 10000 = v * nak_call.d

\* C15: for every longitude L in [0, 360] the call returns
\* nakshatra = ceil(L in arcminutes / 800), with L = 0 mapped to 1, and the pada
\* chosen by the fractional part f of (L in arcminutes / 800): f < 0.25 gives 1,
\* f < 0.5 gives 2, f < 0.75 gives 3, otherwise 4.  (L in arcminutes / 800 is
\* 3 * L / 40 with L in degrees; the least k with k >= x is ceil(x); the
\* quartile of f is 1 + floor(4 * f).)
C15_NakshatraIsCeilPadaIsQuartile ==
    nak_call.made =>
        LET num  == 3 * nak_call.n
            den  == 40 * nak_call.d
            frac == num % den
            ceil == CHOOSE k \in 0 .. TOTAL_NAKSHATRAS :
                        /\ k * den >= num
                        /\ \A j \in 0 .. TOTAL_NAKSHATRAS : j * den >= num => k <= j
        IN /\ nak_call.result.kind = "return"
           /\ nak_call.result.nakshatra = (IF nak_call.n = 0 THEN 1 ELSE ceil)
           /\ nak_call.result.pada = 1 + ((4 * frac) \div den)

\* a call exactly on the boundary between the first two nakshatras (13 deg 20')
C15_Witness ==
    /\ nak_call.made
    /\ 3 * nak_call.n = 40 * nak_call.d
    /\ nak_call.result.kind = "return"

\* C16 as stated: 0 degrees gives (1, 1), 13.3333 degrees gives (2, 1) and
\* 359.9999 degrees gives (27, 4).
C16_BoundaryValuesAsStated ==
    nak_call.made =>
        /\ NakInputIs(0) =>
             (nak_call.result.nakshatra = 1 /\ nak_call.result.pada = 1)
        /\ NakInputIs(133333) =>
             (nak_call.result.nakshatra = 2 /\ nak_call.result.pada = 1)
        /\ NakInputIs(3599999) =>
             (nak_call.result.nakshatra = 27 /\ nak_call.result.pada = 4)

\* C16 as amended: 0 degrees gives (1, 1), 13.3333 degrees (which lies below
\* the boundary 13 deg 20' = 13.3333... degrees) gives (1, 4) and 359.9999
\* degrees gives (27, 4).
C16_BoundaryValues ==
    nak_call.made =>
        /\ nak_call.result.kind = "return"
        /\ NakInputIs(0) =>
             (nak_call.result.nakshatra = 1 /\ nak_call.result.pada = 1)
        /\ NakInputIs(133333) =>
             (nak_call.result.nakshatra = 1 /\ nak_call.result.pada = 4)
        /\ NakInputIs(3599999) =>
             (nak_call.result.nakshatra = 27 /\ nak_call.result.pada = 4)

\* the call with 13.3333 degrees has been made
C16_Witness ==
    /\ nak_call.made
    /\ NakInputIs(133333)
    /\ nak_call.result.kind = "return"

---------------------------------------------------------------------------
(* Properties of the position transformer and the ascendant, checked under *)
(* SpecChart                                                                *)

PositionsReturned ==
    /\ chart_call.made
    /\ chart_call.op = "get_sidereal_planet_positions"
    /\ chart_call.result.kind = "return"

AscendantReturned ==
    /\ chart_call.made
    /\ chart_call.op = "get_sidereal_ascendant_position"
    /\ chart_call.result.kind = "return"

\* the bodies of the returned list, and its ascendant (appended last)
BodyIndexes ==
    { i \in 1 .. Len(chart_call.result.positions) :
        ~chart_call.result.positions[i].is_ascendant }

AscendantOfResult ==
    chart_call.result.positions[Len(chart_call.result.positions)]

\* sidereal longitude L = normalize(tropical - ayanamsa), in [0, 360)
SiderealLongitude(tropical) == (tropical - chart_call.ayanamsa) % TurnArcsec

C13_HouseCountsFromAscendantRasi ==
    PositionsReturned =>
        \A i \in BodyIndexes :
            LET pos == chart_call.result.positions[i] IN
            pos.house_posited_at
                = ((pos.rasi_occupied - AscendantOfResult.rasi_occupied) % 12) + 1

\* the ascendant of the call is not at sidereal longitude 0, where
\* get_sidereal_ascendant_position itself fails (see C17)
AscendantAwayFromZero == SiderealLongitude(chart_call.ascr.degrees) # 0

\* C14: for every sidereal longitude in [0, 360), exactly 0 and every sign
\* boundary included, get_sidereal_planet_positions completes and yields
\* rasi_occupied in 1..12, house_posited_at in 1..12, nakshatra in 1..27 and
\* pada in 1..4.
C14_CompletesWithValidRanges ==
    (/\ chart_call.made
     /\ chart_call.op = "get_sidereal_planet_positions"
     /\ AscendantAwayFromZero) =>
        /\ chart_call.result.kind = "return"
        /\ \A i \in 1 .. Len(chart_call.result.positions) :
            LET pos == chart_call.result.positions[i] IN
            /\ pos.rasi_occupied \in 1 .. 12
            /\ pos.house_posited_at \in 1 .. 12
            /\ pos.natchaththiram \in 1 .. 27
            /\ pos.paatham \in 1 .. 4

\* C17: get_sidereal_ascendant_position always returns a position with
\* is_ascendant true and house_posited_at 1, whose rasi is floor(L / 30) + 1,
\* whose advanced_by is L mod 30 and whose nakshatra and pada are those of L,
\* L being the ascendant's sidereal longitude.  (Stated here for an ordinary
\* latitude and L other than 0.)
C17_AscendantDerivedAsABody ==
    (/\ chart_call.made
     /\ chart_call.op = "get_sidereal_ascendant_position"
     /\ chart_call.lat = Arcsec(13)
     /\ AscendantAwayFromZero) =>
        /\ chart_call.result.kind = "return"
        /\ LET pos == AscendantOfResult
               L   == SiderealLongitude(chart_call.ascr.degrees)
               nak == get_nakshatra_and_pada(L, ArcsecondsPerDegree)
           IN /\ pos.is_ascendant
              /\ pos.house_posited_at = 1
              /\ pos.rasi_occupied = (L \div SignArcsec) + 1
              /\ pos.advanced_by = [arcsec |-> L % SignArcsec, micro |-> 0]
              /\ pos.natchaththiram = nak.nakshatra
              /\ pos.paatham = nak.pada

\* C18: at an observer latitude of exactly +90 or -90 degrees the ascendant
\* calculation reports a domain error and produces no ascendant angle.
C18_PolarLatitudeIsDomainError ==
    (chart_call.made /\ chart_call.lat \in {Arcsec(90), Arcsec(0 - 90)}) =>
        chart_call.ascr.kind = "raise"

---------------------------------------------------------------------------
(* Properties of the retrograde detector, checked under SpecRetro *)

\* the longitude does not pass through 360 degrees between the day before the
\* window and its end
NoPassageThroughZero ==
    \A d \in retro_call.start_date .. retro_call.end_date :
        LET now  == LonAt(retro_call.eph, d)
            prev == LonAt(retro_call.eph, d - 1)
        IN now - prev \in {1, 0 - 1}

\* check_date is an interior point of a maximal direct or retrograde interval
\* of the window: the day before and the day after lie in the window and have
\* the same direction
InteriorPoint ==
    /\ retro_call.start_date < retro_call.check_date
    /\ retro_call.check_date < retro_call.end_date
    /\ RetrogradeFunction(retro_call.eph, retro_call.check_date - 1)
         = RetrogradeFunction(retro_call.eph, retro_call.check_date)
    /\ RetrogradeFunction(retro_call.eph, retro_call.check_date + 1)
         = RetrogradeFunction(retro_call.eph, retro_call.check_date)

\* C19: for a searched body, a window [start, end] and an instant X that is
\* an interior point of one of the window's maximal direct or retrograde
\* intervals (also one in progress at the window start or at its end),
\* membership of X in the periods of find_retrograde_periods equals the
\* direct test longitude(X) < longitude(X - 1 day); likewise for
\* is_planet_in_retrograde(X) with its window X +/- 365 days.
C19_MembershipEqualsDirectTest ==
    (/\ retro_call.made
     /\ retro_call.result.searched
     /\ NoPassageThroughZero
     /\ InteriorPoint) =>
        retro_call.result.value
            = RetrogradeFunction(retro_call.eph, retro_call.check_date)

\* C20: for the codes of the Sun, the Moon, the ascendant and the empty
\* placeholder is_planet_in_retrograde returns False, whatever the ephemeris,
\* without calling find_retrograde_periods or querying the ephemeris.
C20_NeverRetrogradeShortCircuits ==
    (/\ retro_call.made
     /\ retro_call.op = "is_planet_in_retrograde"
     /\ retro_call.planet_name \in {"sun", "moon", "ascendant", "empty"}) =>
        /\ retro_call.result.value = FALSE
        /\ ~retro_call.result.searched

\* the Moon asked about on a day on which the two-sample test says retrograde
C20_Witness ==
    /\ retro_call.made
    /\ retro_call.op = "is_planet_in_retrograde"
    /\ retro_call.planet_name = "moon"
    /\ RetrogradeFunction(retro_call.eph, retro_call.check_date)
    /\ retro_call.result.value = FALSE

---------------------------------------------------------------------------
(* Properties of the chart assembler, checked under SpecKattams *)

KattamsReturned == kattam_call.made /\ kattam_call.result.kind = "return"

\* the ascendant among the positions of the call (appended last)
KattamAscendant ==
    kattam_call.result.planets[Len(kattam_call.result.planets)]

\* C21: for every ascendant rasi a in 1..12, get_kattams returns exactly 12
\* cells sorted by rasi number: the cell at index r - 1 has order = rasi = r,
\* house = ((r - a) mod 12) + 1 and is_ascendant true iff r = a.
C21_TwelveCellsRotatedToAscendant ==
    kattam_call.made =>
        /\ kattam_call.result.kind = "return"
        /\ Len(kattam_call.result.kattams) = 12
        /\ \A r \in 1 .. 12 :
            LET cell == kattam_call.result.kattams[r]
                a    == KattamAscendant.rasi_occupied
            IN /\ cell.order = r
               /\ cell.rasi = r
               /\ cell.house = ((r - a) % 12) + 1
               /\ cell.is_ascendant = (r = a)

\* advanced_by of p is at most that of q
AdvancedAtMost(p, q) ==
    \/ p.advanced_by.arcsec < q.advanced_by.arcsec
    \/ /\ p.advanced_by.arcsec = q.advanced_by.arcsec
       /\ p.advanced_by.micro <= q.advanced_by.micro

\* C22: in every cell returned by get_kattams the occupying positions are
\* listed in ascending order of advanced_by, whatever order the position
\* transformer produced them in.
C22_CellPlanetsAscendByAdvance ==
    KattamsReturned =>
        \A r \in 1 .. Len(kattam_call.result.kattams) :
            LET list == kattam_call.result.kattams[r].planets.list IN
            \A i \in 1 .. Len(list), j \in 1 .. Len(list) :
                i < j => AdvancedAtMost(list[i], list[j])

\* C23: every position produced by the position transformer appears in the
\* planets list of exactly one cell, the cell of its rasi_occupied, and a
\* cell whose rasi no position occupies carries an empty list.
C23_PositionsConserved ==
    KattamsReturned =>
        LET planets == kattam_call.result.planets
            cells   == kattam_call.result.kattams
            Times(pos, list) ==
                Cardinality({ i \in 1 .. Len(list) : list[i] = pos })
        IN /\ \A p \in 1 .. Len(planets), r \in 1 .. Len(cells) :
                Times(planets[p], cells[r].planets.list)
                    = (IF cells[r].rasi = planets[p].rasi_occupied THEN 1 ELSE 0)
           /\ \A r \in 1 .. Len(cells) :
                (\A p \in 1 .. Len(planets) :
                    planets[p].rasi_occupied # cells[r].rasi)
                => (~cells[r].planets.none /\ cells[r].planets.list = <<>>)

\* C24: for every integer position (negative, zero or positive),
\* normalize_rasi_house returns a value within 1..12.
C24_ResultWithinOneToTwelve ==
    rasi_call.made => rasi_call.result \in 1 .. TOTAL_RAASI

\* C27: in get_tropical_planetary_positions every body's ephemeris query is
\* made with the latitude and longitude passed in by the caller, whatever the
\* order of the bodies and the results of earlier queries.
C27_EveryQueryFromTheCallersObserver ==
    tropical_call.made =>
        \A i \in DOMAIN tropical_call.queries :
            /\ tropical_call.queries[i].lat = tropical_call.lat
            /\ tropical_call.queries[i].lon = tropical_call.lon

\* the body's longitude advances on day d: from day d - 1 to day d it grows,
\* modulo 360 degrees, by more than nothing and less than 180 degrees
AdvancesOn(e, d) ==
    LET step == (LonAt(e, d) - LonAt(e, d - 1)) % LonCircle
    IN step > 0 /\ 2 * step < LonCircle

RetrogradeFunctionApplied ==
    retro_call.made /\ retro_call.op = "RetrogradeFunction"

\* C28: a body whose ecliptic longitude advances forward every day (by less
\* than 180 degrees a day, modulo 360) is never reported retrograde by
\* RetrogradeFunction, the day its longitude wraps from just below 360
\* degrees to just above 0 included.
C28_ForwardBodyNeverRetrograde ==
    ( /\ RetrogradeFunctionApplied
      /\ \A d \in retro_call.start_date .. retro_call.end_date :
             AdvancesOn(retro_call.eph, d) )
    => ~retro_call.result.value

\* (nakshatra, pada) of r1 is lexicographically at most that of r2
LexLeq(r1, r2) ==
    \/ r1.nakshatra < r2.nakshatra
    \/ r1.nakshatra = r2.nakshatra /\ r1.pada <= r2.pada

\* C29: for all longitudes L1 <= L2 of [0, 360) the pair (nakshatra, pada)
\* get_nakshatra_and_pada returns for L1 is lexicographically less than or
\* equal to the pair it returns for L2, also when L1 or L2 lies exactly on a
\* nakshatra boundary (a multiple of 13 degrees 20 minutes).
C29_AssignmentIsMonotone ==
    nak_pair.made =>
        /\ nak_pair.r1.kind = "return"
        /\ nak_pair.r2.kind = "return"
        /\ LexLeq(nak_pair.r1, nak_pair.r2)

\* C26: when two or more threads call DatabaseConnection() concurrently
\* before any instance exists, all of them obtain the same instance and
\* _initialize runs exactly once.
C26_OneInstanceInitializedOnce ==
    (db_threads # <<>> /\ \A t \in DOMAIN db_threads : db_threads[t].pc = "done")
    => /\ \A t \in DOMAIN db_threads, u \in DOMAIN db_threads :
             db_threads[t].result = db_threads[u].result
       /\ db_initialized = 1

\* the call id is a set_async call that has returned
SetAsyncReturned(id) ==
    /\ coroutines # <<>>
    /\ coroutines[id].op = "set_async"
    /\ coroutines[id].pc = "done"

\* number of setting_changed signals the call id has emitted
RECURSIVE EmissionsIn(_, _)
EmissionsIn(signals, id) ==
    IF signals = <<>> THEN 0
    ELSE (IF signals[1].by = id THEN 1 ELSE 0) + EmissionsIn(Tail(signals), id)

\* C25: set_async emits setting_changed(section, key, value) exactly once if
\* and only if the stored value of (section, key) differed from str(value)
\* before the call, and only after the configuration has been written to the
\* file; no signal is emitted when the value is unchanged.
C25_EmitsOnceIffChangedAfterSave ==
    /\ \A i \in DOMAIN emitted : emitted[i].saved
    /\ \A id \in CallIds :
          SetAsyncReturned(id) =>
              EmissionsIn(emitted, id) =
                  (IF coroutines[id].stored_before # coroutines[id].value THEN 1 ELSE 0)

\* C30: no SettingsManager operation blocks forever on the manager's own
\* mutex: every call of set, save_all, save and set_async, in every
\* interleaving of two such coroutines on one event loop, eventually
\* completes and leaves the mutex released.
C30_EveryOperationCompletes ==
    \A c \in CoroutineIds :
        (coroutines # <<>> /\ coroutines[c].pc # "idle")
            ~> (coroutines[c].pc \in {"done", "raised"} /\ mutex # c)

====
